---- MODULE Spec2Model ----
(***************************************************************************)
(* Model of the tosqweel JSON tokenizer and recursive-descent parser       *)
(* (src/src/main.rs).  A character is a one-character string, a slice      *)
(* &[char] is a sequence of characters, a Token and a JsonObject are       *)
(* records tagged by the field t.  The tokenize loop and the parser's      *)
(* loops are run one iteration per action; the scanning helpers are        *)
(* operators computed as the code computes them.                           *)
(***************************************************************************)
EXTENDS Integers, Sequences, FiniteSets, TLC

VARIABLES data, rest, tokens, pc, pos, stack, err, result, maxread

vars == <<data, rest, tokens, pc, pos, stack, err, result, maxread>>

(***************************************************************************)
(* Bounds of the checked inputs.                                           *)
(***************************************************************************)
MaxPieces == 3
MaxNumLen == 4
MaxTokens == 4
MaxArrLen == 4
MaxMembers == 3

(***************************************************************************)
(* Characters.                                                             *)
(***************************************************************************)
Quote == "\""
Backslash == "\\"

\* char::is_whitespace (line 61), on the characters the inputs are drawn from.
is_whitespace(c) == c \in {" ", "\t", "\n", "\r"}

is_ascii_digit(c) == c \in {"0", "1", "2", "3", "4", "5", "6", "7", "8", "9"}

DigitValue(c) ==
    CASE c = "0" -> 0 [] c = "1" -> 1 [] c = "2" -> 2 [] c = "3" -> 3
      [] c = "4" -> 4 [] c = "5" -> 5 [] c = "6" -> 6 [] c = "7" -> 7
      [] c = "8" -> 8 [] c = "9" -> 9

Slice(d, from) == SubSeq(d, from + 1, Len(d))

Contains(s, c) == \E k \in 1..Len(s) : s[k] = c

\* F applied to the value of v, which is evaluated once.
Apply(F(_), v) == CHOOSE r \in {F(x) : x \in {v}} : TRUE

(***************************************************************************)
(* Tokens and values.                                                      *)
(***************************************************************************)
LeftBrace == [t |-> "LeftBrace"]
RightBrace == [t |-> "RightBrace"]
LeftBracket == [t |-> "LeftBracket"]
RightBracket == [t |-> "RightBracket"]
Colon == [t |-> "Colon"]
Comma == [t |-> "Comma"]
NullToken == [t |-> "Null"]
StringToken(s) == [t |-> "String", s |-> s]
BoolToken(b) == [t |-> "Bool", b |-> b]
NumberToken(n) == [t |-> "Number", n |-> n]

Integer(neg, mag) == [k |-> "Integer", neg |-> neg, mag |-> mag]
Float(neg, mag, scale) == [k |-> "Float", neg |-> neg, mag |-> mag, scale |-> scale]

JsonArray(a) == [t |-> "Array", a |-> a]
JsonBool(b) == [t |-> "Bool", b |-> b]
JsonNull == [t |-> "Null"]
JsonNumber(n) == [t |-> "Number", n |-> n]
JsonObjectOf(m) == [t |-> "Object", o |-> m]
JsonString(s) == [t |-> "String", s |-> s]

Ok(v) == [t |-> "Ok", val |-> v]
Err(m) == [t |-> "Err", err |-> m]
NoResult == [t |-> "None"]
NoErr == ""

(***************************************************************************)
(* skip_whitespace: the index loop of lines 60-63, then the slice.         *)
(***************************************************************************)
RECURSIVE WhitespaceEnd(_, _)
WhitespaceEnd(d, i) ==
    IF i < Len(d) /\ is_whitespace(d[i + 1]) THEN WhitespaceEnd(d, i + 1) ELSE i

skip_whitespace(d) == Slice(d, WhitespaceEnd(d, 0))

(***************************************************************************)
(* tokenize_string: i starts at 1 (after the opening quote) and stops at   *)
(* the first double quote, whatever precedes it.                           *)
(***************************************************************************)
RECURSIVE StringEnd(_, _)
StringEnd(d, i) ==
    IF i < Len(d) /\ d[i + 1] # Quote THEN StringEnd(d, i + 1) ELSE i

tokenize_string(d) ==
    LET i == StringEnd(d, 1)
    IN  IF i >= Len(d)
        THEN [ok |-> FALSE, err |-> "Unterminated string"]
        ELSE [ok |-> TRUE, s |-> SubSeq(d, 2, i), rest |-> Slice(d, i + 1)]

(***************************************************************************)
(* str::parse::<i64> and str::parse::<f64> on the text tokenize_number     *)
(* collects (an optional '-', then digits and '.').  An integer keeps its  *)
(* magnitude as decimal digits without leading zeros, so that the i64      *)
(* range test is exact; a float keeps its decimal mantissa and the number  *)
(* of fractional digits, trailing zeros dropped.                           *)
(***************************************************************************)
I64MaxDigits == <<9, 2, 2, 3, 3, 7, 2, 0, 3, 6, 8, 5, 4, 7, 7, 5, 8, 0, 7>>
I64MinDigits == <<9, 2, 2, 3, 3, 7, 2, 0, 3, 6, 8, 5, 4, 7, 7, 5, 8, 0, 8>>

Digits(s) == [k \in 1..Len(s) |-> DigitValue(s[k])]

RECURSIVE StripLeadingZeros(_)
StripLeadingZeros(m) ==
    IF Len(m) > 1 /\ m[1] = 0 THEN StripLeadingZeros(Tail(m)) ELSE m

RECURSIVE StripTrailingZeros(_)
StripTrailingZeros(m) ==
    IF m # <<>> /\ m[Len(m)] = 0 THEN StripTrailingZeros(SubSeq(m, 1, Len(m) - 1)) ELSE m

RECURSIVE DigitsLeq(_, _)
DigitsLeq(a, b) ==
    IF Len(a) # Len(b) THEN Len(a) < Len(b)
    ELSE IF a = <<>> THEN TRUE
    ELSE IF a[1] # b[1] THEN a[1] < b[1]
    ELSE DigitsLeq(Tail(a), Tail(b))

InI64Range(neg, mag) ==
    IF ~neg /\ ~DigitsLeq(mag, I64MaxDigits)
    THEN [ok |-> FALSE, err |-> "number too large to fit in target type"]
    ELSE IF neg /\ ~DigitsLeq(mag, I64MinDigits)
    THEN [ok |-> FALSE, err |-> "number too small to fit in target type"]
    ELSE [ok |-> TRUE, num |-> Integer(neg /\ mag # <<0>>, mag)]

ParseI64(s) ==
    LET neg == s # <<>> /\ s[1] = "-"
        body == IF neg THEN Tail(s) ELSE s
    IN  IF s = <<>> THEN [ok |-> FALSE, err |-> "cannot parse integer from empty string"]
        ELSE IF body = <<>> THEN [ok |-> FALSE, err |-> "invalid digit found in string"]
        ELSE Apply(LAMBDA mag : InI64Range(neg, mag), StripLeadingZeros(Digits(body)))

ParseF64(s) ==
    LET neg == s # <<>> /\ s[1] = "-"
        body == IF neg THEN Tail(s) ELSE s
        dots == {k \in 1..Len(body) : body[k] = "."}
    IN  IF s = <<>> THEN [ok |-> FALSE, err |-> "cannot parse float from empty string"]
        ELSE IF Cardinality(dots) > 1 \/ Len(body) = Cardinality(dots)
        THEN [ok |-> FALSE, err |-> "invalid float literal"]
        ELSE LET d == IF dots = {} THEN Len(body) + 1 ELSE CHOOSE k \in dots : TRUE
                 whole == Digits(SubSeq(body, 1, d - 1))
                 frac == StripTrailingZeros(Digits(SubSeq(body, d + 1, Len(body))))
             IN  [ok |-> TRUE,
                  num |-> Float(neg, StripLeadingZeros(whole \o frac), Len(frac))]

(***************************************************************************)
(* tokenize_number: optional '-', then the maximal run of ASCII digits     *)
(* and '.'; is_float is set by any '.' of the run.                         *)
(***************************************************************************)
RECURSIVE NumberEnd(_, _)
NumberEnd(d, i) ==
    IF i < Len(d) /\ (is_ascii_digit(d[i + 1]) \/ d[i + 1] = ".")
    THEN NumberEnd(d, i + 1) ELSE i

NumberRun(d) ==
    LET i0 == IF d[1] = "-" THEN 1 ELSE 0
    IN  [sign |-> i0, end |-> NumberEnd(d, i0)]

\* Mutant of is_float: a run too long for an i64 is taken as a float.
is_float_or_large(d) ==
    LET r == NumberRun(d)
    IN  Contains(SubSeq(d, r.sign + 1, r.end), ".") \/ r.end - r.sign > 18

is_float(d) ==
    LET r == NumberRun(d) IN Contains(SubSeq(d, r.sign + 1, r.end), ".")

NumberResult(num, remaining) ==
    IF num.ok
    THEN [ok |-> TRUE, num |-> num.num, rest |-> remaining]
    ELSE [ok |-> FALSE, err |-> num.err]

tokenize_number(d) ==
    LET i == NumberRun(d).end
        float == is_float(d)
    IN  Apply(LAMBDA s : NumberResult(IF float THEN ParseF64(s) ELSE ParseI64(s),
                                      Slice(d, Len(s))),
              SubSeq(d, 1, i))

(***************************************************************************)
(* tokenize_bool and tokenize_null compare a prefix of the slice.          *)
(***************************************************************************)
StartsWith(d, w) == Len(d) >= Len(w) /\ SubSeq(d, 1, Len(w)) = w

tokenize_bool(d) ==
    IF StartsWith(d, <<"t", "r", "u", "e">>)
    THEN [ok |-> TRUE, b |-> TRUE, rest |-> Slice(d, 4)]
    ELSE IF StartsWith(d, <<"f", "a", "l", "s", "e">>)
    THEN [ok |-> TRUE, b |-> FALSE, rest |-> Slice(d, 5)]
    ELSE [ok |-> FALSE, err |-> "Invalid boolean"]

tokenize_null(d) ==
    IF StartsWith(d, <<"n", "u", "l", "l">>)
    THEN [ok |-> TRUE, rest |-> Slice(d, 4)]
    ELSE [ok |-> FALSE, err |-> "Invalid null"]

(***************************************************************************)
(* The inputs.  A text is a concatenation of at most n pieces.             *)
(***************************************************************************)
RECURSIVE Concats(_, _)
Concats(P, n) ==
    IF n = 0 THEN {<<>>}
    ELSE LET shorter == Concats(P, n - 1)
         IN  shorter \cup {s \o p : s \in shorter, p \in P}

Pieces ==
    { <<"{">>, <<"}">>, <<"[">>, <<"]">>, <<":">>, <<",">>, <<" ">>,
      <<Quote>>, <<Backslash, Quote>>, <<"a">>, <<"1">>,
      <<"t", "r", "u", "e">> }

WordPieces ==
    { <<"t", "r", "u", "e">>, <<"f", "a", "l", "s", "e">>, <<"n", "u", "l", "l">>,
      <<"t", "r", "u">>, <<"n", "u", "l">>, <<"f">>, <<"x">>, <<"1">>, <<" ">>, <<"\n">> }

NumChars == { <<"-">>, <<"3">>, <<"5">>, <<"0">>, <<".">> }

BigLiterals ==
    { <<"9", "2", "2", "3", "3", "7", "2", "0", "3", "6", "8", "5", "4", "7", "7", "5", "8", "0", "7">>,
      <<"9", "2", "2", "3", "3", "7", "2", "0", "3", "6", "8", "5", "4", "7", "7", "5", "8", "0", "8">>,
      <<"-", "9", "2", "2", "3", "3", "7", "2", "0", "3", "6", "8", "5", "4", "7", "7", "5", "8", "0", "8">>,
      <<"-", "9", "2", "2", "3", "3", "7", "2", "0", "3", "6", "8", "5", "4", "7", "7", "5", "8", "0", "9">> }

Samples ==
    { <<"{", Quote, "a", Quote, ":", "1", ",", Quote, "a", Quote, ":", "2", "}">>,
      <<"{", " ", Quote, "a", Quote, " ", ":", " ", "1", " ", "}">>,
      <<"{", Quote, "a", Quote, ":", "1", "}">>,
      <<"[", "[", "1", ",", "2", "]", ",", "[", "3", ",", "[", "4", "]", "]", "]">>,
      <<"{", "1", ":", "2", "}">>,
      <<"{", Quote, "a", Quote, ":", "[", "n", "u", "l", "l", ",", "f", "a", "l", "s", "e">>,
      <<"[", "{", Quote, "a", Quote, ":", "-", "5", "}", ",", "3", ".", "0", "]", "t", "r", "u", "e">>,
      <<Quote, "a", Backslash, Quote, "a", Quote>> }

Inputs ==
    Concats(Pieces, MaxPieces) \cup Concats(WordPieces, 2)
        \cup Concats(NumChars, MaxNumLen) \cup BigLiterals \cup Samples

(***************************************************************************)
(* parse_object calls tokenize on the text it is given.                    *)
(***************************************************************************)
Init ==
    /\ data \in Inputs
    /\ rest = data
    /\ tokens = <<>>
    /\ pc = "start"
    /\ pos = 0
    /\ stack = <<>>
    /\ err = NoErr
    /\ result = NoResult
    /\ maxread = 0

ParserIdle == UNCHANGED <<pos, stack, result, maxread>>

(***************************************************************************)
(* tokenize, lines 68-69: the token vector and the first skip.             *)
(***************************************************************************)
TokenizeEnter ==
    /\ pc = "start"
    /\ tokens' = <<>>
    /\ rest' = skip_whitespace(data)
    /\ pc' = "tokenize"
    /\ UNCHANGED <<data, err>>
    /\ ParserIdle

(***************************************************************************)
(* The loop condition of line 71 fails: tokenize returns Ok(tokens).       *)
(***************************************************************************)
TokenizeExit ==
    /\ pc = "tokenize"
    /\ rest = <<>>
    /\ pc' = "tokenized"
    /\ UNCHANGED <<data, rest, tokens, err>>
    /\ ParserIdle

(***************************************************************************)
(* Lines 72-75: only whitespace is left, the loop breaks.                  *)
(***************************************************************************)
TokenizeBreak ==
    /\ pc = "tokenize"
    /\ rest # <<>>
    /\ skip_whitespace(rest) = <<>>
    /\ rest' = skip_whitespace(rest)
    /\ pc' = "tokenized"
    /\ UNCHANGED <<data, tokens, err>>
    /\ ParserIdle

(***************************************************************************)
(* One iteration of the loop, by the arm of the match of line 77.  Here is *)
(* the slice after the skip of line 72, which is not empty.                *)
(***************************************************************************)
Here == skip_whitespace(rest)

AtChar(S) == pc = "tokenize" /\ rest # <<>> /\ Here # <<>> /\ Here[1] \in S

Push(tok, remaining) ==
    /\ tokens' = Append(tokens, tok)
    /\ rest' = remaining
    /\ pc' = "tokenize"
    /\ UNCHANGED <<data, err>>
    /\ ParserIdle

LexError(msg) ==
    /\ err' = msg
    /\ rest' = Here
    /\ pc' = "raise"
    /\ UNCHANGED <<data, tokens>>
    /\ ParserIdle

Punctuation(c) ==
    CASE c = "{" -> LeftBrace [] c = "}" -> RightBrace
      [] c = "[" -> LeftBracket [] c = "]" -> RightBracket
      [] c = ":" -> Colon [] c = "," -> Comma

TokenizePunctuation ==
    /\ AtChar({"{", "}", "[", "]", ":", ","})
    /\ Push(Punctuation(Here[1]), Slice(Here, 1))

TokenizeString ==
    /\ AtChar({Quote})
    /\ LET r == tokenize_string(Here)
       IN  IF r.ok THEN Push(StringToken(r.s), r.rest) ELSE LexError(r.err)

TokenizeBool ==
    /\ AtChar({"t", "f"})
    /\ LET r == tokenize_bool(Here)
       IN  IF r.ok THEN Push(BoolToken(r.b), r.rest) ELSE LexError(r.err)

TokenizeNull ==
    /\ AtChar({"n"})
    /\ LET r == tokenize_null(Here)
       IN  IF r.ok THEN Push(NullToken, r.rest) ELSE LexError(r.err)

TokenizeNumber ==
    /\ AtChar({"-", "0", "1", "2", "3", "4", "5", "6", "7", "8", "9"})
    /\ LET r == tokenize_number(Here)
       IN  IF r.ok THEN Push(NumberToken(r.num), r.rest) ELSE LexError(r.err)

TokenizeUnexpected ==
    /\ pc = "tokenize" /\ rest # <<>> /\ Here # <<>>
    /\ Here[1] \notin {"{", "}", "[", "]", ":", ",", Quote, "t", "f", "n", "-",
                       "0", "1", "2", "3", "4", "5", "6", "7", "8", "9"}
    /\ LexError("Unexpected character: " \o Here[1])

(***************************************************************************)
(* The parser.  stack holds one frame per parse_json_array or              *)
(* parse_json_object call that has not returned: its arr or obj, the key   *)
(* whose value is being parsed, and the cursor at which the call began.    *)
(* maxread is one more than the largest token index read so far.           *)
(***************************************************************************)
Max(a, b) == IF a >= b THEN a ELSE b

Frame(kind, start) ==
    [kind |-> kind, arr |-> <<>>, obj |-> <<>>, key |-> <<>>, start |-> start]

Top(stk) == stk[Len(stk)]

Pop(stk) == SubSeq(stk, 1, Len(stk) - 1)

TokenAt(i) == IF i < Len(tokens) THEN tokens[i + 1] ELSE [t |-> "OutOfBounds"]

\* Mutant of insert: an existing key keeps its value.
insert_if_absent(obj, key, val) ==
    [k \in DOMAIN obj \cup {key} |-> IF k \in DOMAIN obj THEN obj[k] ELSE val]

\* HashMap::insert: the value of an existing key is replaced.
insert(obj, key, val) ==
    [k \in DOMAIN obj \cup {key} |-> IF k = key THEN val ELSE obj[k]]

Leaf(tok) ==
    CASE tok.t = "String" -> JsonString(tok.s)
      [] tok.t = "Number" -> JsonNumber(tok.n)
      [] tok.t = "Bool" -> JsonBool(tok.b)
      [] tok.t = "Null" -> JsonNull

Set(p, stk, mr, next, res, e) ==
    /\ pos' = p
    /\ stack' = stk
    /\ maxread' = mr
    /\ pc' = next
    /\ result' = res
    /\ err' = e
    /\ UNCHANGED <<data, rest, tokens>>

\* An Err is returned: the message is on its way to the caller.
Raise(msg, p, stk, mr) == Set(p, stk, mr, "raise", result, msg)

\* Mutant of Return: the root value must be the last token.
ReturnStrict(val, p, stk, mr) ==
    IF stk = <<>>
    THEN IF p < Len(tokens)
         THEN Raise("Trailing tokens", p, stk, mr)
         ELSE Set(p, stk, mr, "done", Ok(val), err)
    ELSE IF Top(stk).kind = "array"
    THEN Set(p, [stk EXCEPT ![Len(stk)].arr = Append(@, val)], mr, "array", result, err)
    ELSE Set(p, [stk EXCEPT ![Len(stk)].obj = insert(@, Top(stk).key, val)], mr,
             "object", result, err)

\* Ok(val) is returned with the cursor at p: to parse_object when no call is
\* open, into the arr of the enclosing array (line 205) or under the pending
\* key of the enclosing object (line 236).
Return(val, p, stk, mr) ==
    IF stk = <<>>
    THEN Set(p, stk, mr, "done", Ok(val), err)
    ELSE IF Top(stk).kind = "array"
    THEN Set(p, [stk EXCEPT ![Len(stk)].arr = Append(@, val)], mr, "array", result, err)
    ELSE Set(p, [stk EXCEPT ![Len(stk)].obj = insert(@, Top(stk).key, val)], mr,
             "object", result, err)

\* parse_value at cursor p, up to the return of a leaf or the entry into the
\* loop of parse_json_array / parse_json_object (which skips the bracket).
CallValue(p, stk, mr) ==
    IF p >= Len(tokens)
    THEN Raise("Unexpected end of tokens", p, stk, mr)
    ELSE LET tok == TokenAt(p)
             mr2 == Max(mr, p + 1)
         IN  CASE tok.t = "LeftBrace" ->
                    Set(p + 1, Append(stk, Frame("object", p)), mr2, "object", result, err)
               [] tok.t = "LeftBracket" ->
                    Set(p + 1, Append(stk, Frame("array", p)), mr2, "array", result, err)
               [] tok.t \in {"String", "Number", "Bool", "Null"} ->
                    Return(Leaf(tok), p + 1, stk, mr2)
               [] tok.t = "OutOfBounds" ->
                    Set(p, stk, mr2, "panic", result, err)
               [] OTHER ->
                    Raise("Unexpected token: " \o tok.t, p, stk, mr2)

(***************************************************************************)
(* parse_object, lines 276-280, once tokenize has returned Ok(tokens).     *)
(***************************************************************************)
\* Mutant of ParseObject: no check for an empty token vector.
ParseObjectUnchecked ==
    /\ pc = "tokenized"
    /\ Set(0, stack, maxread, "value", result, err)

ParseObject ==
    /\ pc = "tokenized"
    /\ IF tokens = <<>>
       THEN Raise("Empty input", pos, stack, maxread)
       ELSE Set(0, stack, maxread, "value", result, err)

\* Line 281: the root value.
ParseValue ==
    /\ pc = "value"
    /\ CallValue(pos, stack, maxread)

(***************************************************************************)
(* parse_json_array: one iteration of the loop of lines 194-208 per        *)
(* action, by the arm of the match.                                        *)
(***************************************************************************)
InArray(T) == pc = "array" /\ pos < Len(tokens) /\ tokens[pos + 1].t \in T

ArrayClose ==
    /\ InArray({"RightBracket"})
    /\ Return(JsonArray(Top(stack).arr), pos + 1, Pop(stack), Max(maxread, pos + 1))

\* Mutant of ArrayComma: a comma with no element before it appends Null.
ArrayCommaNull ==
    /\ InArray({"Comma"})
    /\ Set(pos + 1,
           IF tokens[pos].t \in {"LeftBracket", "Comma"}
           THEN [stack EXCEPT ![Len(stack)].arr = Append(@, JsonNull)] ELSE stack,
           Max(maxread, pos + 1), "array", result, err)

\* Mutant of ArrayComma: the cursor is not advanced.
ArrayCommaStuck ==
    /\ InArray({"Comma"})
    /\ Set(pos, stack, Max(maxread, pos + 1), "array", result, err)

ArrayComma ==
    /\ InArray({"Comma"})
    /\ Set(pos + 1, stack, Max(maxread, pos + 1), "array", result, err)

ArrayElement ==
    /\ pc = "array" /\ pos < Len(tokens)
    /\ tokens[pos + 1].t \notin {"RightBracket", "Comma"}
    /\ CallValue(pos, stack, Max(maxread, pos + 1))

ArrayUnterminated ==
    /\ pc = "array" /\ pos >= Len(tokens)
    /\ Raise("Unterminated array", pos, stack, maxread)

(***************************************************************************)
(* parse_json_object: one iteration of the loop of lines 217-240.          *)
(***************************************************************************)
InObject(T) == pc = "object" /\ pos < Len(tokens) /\ tokens[pos + 1].t \in T

ObjectClose ==
    /\ InObject({"RightBrace"})
    /\ Return(JsonObjectOf(Top(stack).obj), pos + 1, Pop(stack), Max(maxread, pos + 1))

ObjectComma ==
    /\ InObject({"Comma"})
    /\ Set(pos + 1, stack, Max(maxread, pos + 1), "object", result, err)

ObjectMember ==
    /\ InObject({"String"})
    /\ LET key == tokens[pos + 1].s
           p1 == pos + 1
       IN  IF p1 >= Len(tokens)
           THEN Raise("Expected colon after key", p1, stack, Max(maxread, p1))
           ELSE IF TokenAt(p1).t # "Colon"
           THEN Raise("Expected colon after key", p1, stack, Max(maxread, p1 + 1))
           ELSE CallValue(p1 + 1, [stack EXCEPT ![Len(stack)].key = key],
                          Max(maxread, p1 + 1))

ObjectBadKey ==
    /\ pc = "object" /\ pos < Len(tokens)
    /\ tokens[pos + 1].t \notin {"RightBrace", "Comma", "String"}
    /\ Raise("Expected string key in object", pos, stack, Max(maxread, pos + 1))

\* Mutant of ObjectUnterminated: the end of the tokens closes the object.
ObjectUnterminatedLenient ==
    /\ pc = "object" /\ pos >= Len(tokens)
    /\ Return(JsonObjectOf(Top(stack).obj), pos, Pop(stack), maxread)

ObjectUnterminated ==
    /\ pc = "object" /\ pos >= Len(tokens)
    /\ Raise("Unterminated object", pos, stack, maxread)

(***************************************************************************)
(* The ? of lines 204 and 235 hands an Err to the caller of the enclosing  *)
(* call, whose arr or obj is dropped; with no call left (also for an Err   *)
(* of tokenize, line 274) parse_object returns it.                         *)
(***************************************************************************)
\* Mutant of Propagate: an array loop skips the token an element failed at.
PropagateRecover ==
    /\ pc = "raise"
    /\ IF stack # <<>> /\ Top(stack).kind = "array" /\ pos < Len(tokens)
       THEN Set(pos + 1, stack, maxread, "array", result, NoErr)
       ELSE IF stack # <<>>
       THEN Set(pos, Pop(stack), maxread, "raise", result, err)
       ELSE Set(pos, stack, maxread, "done", Err(err), err)

Propagate ==
    /\ pc = "raise"
    /\ IF stack # <<>>
       THEN Set(pos, Pop(stack), maxread, "raise", result, err)
       ELSE Set(pos, stack, maxread, "done", Err(err), err)

Tokenizer ==
    \/ TokenizeEnter
    \/ TokenizeExit
    \/ TokenizeBreak
    \/ TokenizePunctuation
    \/ TokenizeString
    \/ TokenizeBool
    \/ TokenizeNull
    \/ TokenizeNumber
    \/ TokenizeUnexpected

Parser ==
    \/ ParseValue
    \/ ArrayClose
    \/ ArrayComma
    \/ ArrayElement
    \/ ArrayUnterminated
    \/ ObjectClose
    \/ ObjectComma
    \/ ObjectMember
    \/ ObjectBadKey
    \/ ObjectUnterminated
    \/ Propagate

Next == Tokenizer \/ ParseObject \/ Parser

Spec == Init /\ [][Next]_vars

\* A run is one call of parse_object on one thread: a step that can be taken
\* is taken.
FairSpec == Spec /\ WF_vars(Next)

TypeOK ==
    /\ pc \in {"start", "tokenize", "tokenized", "value", "array", "object", "raise", "done"}
    /\ pos \in 0..Len(tokens)

(***************************************************************************)
(* parse_value, parse_json_array and parse_json_object as functions of the *)
(* token vector and the cursor: the result and the cursor they leave.  The *)
(* loops of lines 194-208 and 217-240 recurse on the cursor and on the arr *)
(* or obj built so far.                                                    *)
(***************************************************************************)
Parsed(val, p) == [ok |-> TRUE, val |-> val, pos |-> p]

Failed(msg, p) == [ok |-> FALSE, err |-> msg, pos |-> p]

RECURSIVE parse_value(_, _), parse_json_array(_, _, _), parse_json_object(_, _, _)

parse_value(toks, p) ==
    IF p >= Len(toks)
    THEN Failed("Unexpected end of tokens", p)
    ELSE LET tok == toks[p + 1]
         IN  CASE tok.t = "LeftBrace" -> parse_json_object(toks, p + 1, <<>>)
               [] tok.t = "LeftBracket" -> parse_json_array(toks, p + 1, <<>>)
               [] tok.t \in {"String", "Number", "Bool", "Null"} -> Parsed(Leaf(tok), p + 1)
               [] OTHER -> Failed("Unexpected token: " \o tok.t, p)

parse_json_array(toks, p, arr) ==
    IF p >= Len(toks)
    THEN Failed("Unterminated array", p)
    ELSE LET tok == toks[p + 1]
         IN  CASE tok.t = "RightBracket" -> Parsed(JsonArray(arr), p + 1)
               [] tok.t = "Comma" -> parse_json_array(toks, p + 1, arr)
               [] OTHER ->
                    LET r == parse_value(toks, p)
                    IN  IF r.ok THEN parse_json_array(toks, r.pos, Append(arr, r.val)) ELSE r

parse_json_object(toks, p, obj) ==
    IF p >= Len(toks)
    THEN Failed("Unterminated object", p)
    ELSE LET tok == toks[p + 1]
         IN  CASE tok.t = "RightBrace" -> Parsed(JsonObjectOf(obj), p + 1)
               [] tok.t = "Comma" -> parse_json_object(toks, p + 1, obj)
               [] tok.t = "String" ->
                    IF p + 1 >= Len(toks) \/ toks[p + 2].t # "Colon"
                    THEN Failed("Expected colon after key", p + 1)
                    ELSE LET r == parse_value(toks, p + 2)
                         IN  IF r.ok
                             THEN parse_json_object(toks, r.pos, insert(obj, tok.s, r.val))
                             ELSE r
               [] OTHER -> Failed("Expected string key in object", p)

(***************************************************************************)
(* The parser on token vectors: parse_value is applied at cursor 0.        *)
(***************************************************************************)
One == Integer(FALSE, <<1>>)
Two == Integer(FALSE, <<2>>)
KeyA == StringToken(<<"a">>)
KeyB == StringToken(<<"b">>)

TokenPieces ==
    { <<LeftBrace>>, <<RightBrace>>, <<LeftBracket>>, <<RightBracket>>, <<Colon>>,
      <<Comma>>, <<KeyA>>, <<NumberToken(One)>> }

ArrayPieces ==
    { <<LeftBracket>>, <<RightBracket>>, <<Comma>>, <<NumberToken(One)>>,
      <<NullToken>>, <<BoolToken(TRUE)>> }

MemberPieces ==
    { <<k, Colon, NumberToken(n)>> \o c :
        k \in {KeyA, KeyB}, n \in {One, Two}, c \in {<<>>, <<Comma>>} }

TokenInputs ==
    Concats(TokenPieces, MaxTokens)
        \cup {<<LeftBracket>> \o s : s \in Concats(ArrayPieces, MaxArrLen)}
        \cup {<<LeftBrace>> \o s \o <<RightBrace>> : s \in Concats(MemberPieces, MaxMembers)}

InitParse ==
    /\ tokens \in TokenInputs
    /\ data = <<>>
    /\ rest = <<>>
    /\ pc = "value"
    /\ pos = 0
    /\ stack = <<>>
    /\ err = NoErr
    /\ result = NoResult
    /\ maxread = 0

SpecParse == InitParse /\ [][Parser]_vars

\* The stepwise parser and the functions agree on every run that has ended.
Agreement ==
    pc = "done" /\ tokens # <<>> /\ rest = <<>> =>
        LET r == parse_value(tokens, 0)
        IN  /\ (result.t = "Ok") = r.ok
            /\ r.ok => result.val = r.val /\ pos = r.pos
            /\ ~r.ok => result.err = r.err /\ pos = r.pos

(***************************************************************************)
(* Claims about the tokenizer, checked under Spec.                         *)
(***************************************************************************)
Last(s) == s[Len(s)]

\* The index of the first double quote at or after i that no backslash precedes.
RECURSIVE UnescapedQuote(_, _)
UnescapedQuote(d, i) ==
    IF i < Len(d) /\ ~(d[i + 1] = Quote /\ d[i] # Backslash)
    THEN UnescapedQuote(d, i + 1) ELSE i

\* C1: string scanning ends only at an unescaped closing double quote: a quote
\* right after a backslash does not end the token, both characters are copied
\* into the token's text, and the token ends at the first quote that no
\* backslash precedes (the scan fails when there is none).
C1_StringEndsAtUnescapedQuote ==
    [][AtChar({Quote}) =>
         LET j == UnescapedQuote(Here, 1)
         IN  IF j >= Len(Here)
             THEN pc' = "raise" /\ err' = "Unterminated string"
             ELSE /\ tokens' = Append(tokens, StringToken(SubSeq(Here, 2, j)))
                  /\ rest' = Slice(Here, j + 1)]_vars

\* The text of the token that starts the slice: up to the next whitespace,
\* punctuation or double quote.
IsDelimiter(c) == is_whitespace(c) \/ c \in {"{", "}", "[", "]", ":", ",", Quote}

RECURSIVE WordEnd(_, _)
WordEnd(d, i) ==
    IF i < Len(d) /\ ~IsDelimiter(d[i + 1]) THEN WordEnd(d, i + 1) ELSE i

Word(d) == SubSeq(d, 1, WordEnd(d, 0))

\* C2: a token starting with 't' or 'f' becomes a Bool token only when its
\* text is exactly true or false; for every other text (shorter, such as tru,
\* or longer, such as truex) tokenize fails with "Invalid boolean".
C2_BoolOnlyForExactKeyword ==
    [][AtChar({"t", "f"}) =>
         IF Word(Here) = <<"t", "r", "u", "e">>
         THEN tokens' = Append(tokens, BoolToken(TRUE))
         ELSE IF Word(Here) = <<"f", "a", "l", "s", "e">>
         THEN tokens' = Append(tokens, BoolToken(FALSE))
         ELSE pc' = "raise" /\ err' = "Invalid boolean" /\ tokens' = tokens]_vars

\* The scanned run of a numeric literal, stated from its description: after
\* an optional leading '-', the longest stretch of ASCII digits and '.'.
RunStart(d) == IF d[1] = "-" THEN 1 ELSE 0

RunOf(d) ==
    LET ends == {n \in RunStart(d)..Len(d) :
                    \A k \in (RunStart(d) + 1)..n : is_ascii_digit(d[k]) \/ d[k] = "."}
        n == CHOOSE m \in ends : \A o \in ends : o <= m
    IN  SubSeq(d, RunStart(d) + 1, n)

Text3 == <<"3">>
Text3Dot0 == <<"3", ".", "0">>
TextMinus5 == <<"-", "5">>

\* C7: the Number variant is decided only by the presence of a decimal point:
\* every literal tokenize_number accepts gives Float exactly when the scanned
\* run contains a '.', and Integer otherwise, whatever its magnitude; 3 gives
\* Integer(3), 3.0 gives Float(3.0) and -5 gives Integer(-5).
C7_FloatIffDecimalPoint ==
    /\ [][AtChar({"-", "0", "1", "2", "3", "4", "5", "6", "7", "8", "9"})
              /\ pc' = "tokenize" =>
            /\ Len(tokens') = Len(tokens) + 1
            /\ Last(tokens').t = "Number"
            /\ (Last(tokens').n.k = "Float") = Contains(RunOf(Here), ".")
            /\ (Last(tokens').n.k = "Integer") = ~Contains(RunOf(Here), ".")]_vars
    /\ [](pc = "tokenized" /\ data = Text3 =>
            tokens = <<NumberToken(Integer(FALSE, <<3>>))>>)
    /\ [](pc = "tokenized" /\ data = Text3Dot0 =>
            tokens = <<NumberToken(Float(FALSE, <<3>>, 0))>>)
    /\ [](pc = "tokenized" /\ data = TextMinus5 =>
            tokens = <<NumberToken(Integer(TRUE, <<5>>))>>)

\* 3.0 has been tokenized.
C7_Witness ==
    pc = "tokenized" /\ data = Text3Dot0 /\ tokens = <<NumberToken(Float(FALSE, <<3>>, 0))>>

\* A literal of 19 digits has been accepted as an Integer.
LargeIntegerAccepted ==
    pc = "tokenized" /\ Len(data) = 19 /\ Len(tokens) = 1 /\ tokens[1].n.k = "Integer"

AllWhitespace(d) == \A k \in 1..Len(d) : is_whitespace(d[k])

\* C8: for an input that is empty or only whitespace, tokenize succeeds with
\* an empty token sequence and the top-level parse fails with "Empty input"
\* without calling parse_value.
C8_EmptyInputRejectedByParser ==
    AllWhitespace(data) =>
        /\ tokens = <<>>
        /\ pc \in {"start", "tokenize", "tokenized", "raise", "done"}
        /\ pc = "raise" => err = "Empty input"
        /\ pc = "done" => result = Err("Empty input")
        /\ pc \notin {"raise", "done"} => err = NoErr
        /\ pos = 0 /\ maxread = 0 /\ stack = <<>>

\* A whitespace-only input has been rejected.
C8_Witness ==
    /\ data # <<>> /\ AllWhitespace(data)
    /\ pc = "done" /\ result = Err("Empty input")

(***************************************************************************)
(* Claims about the parser on token vectors, checked under SpecParse.      *)
(***************************************************************************)
Prefix(k) == SubSeq(tokens, 1, k)

\* C3: trailing tokens after the root value are ignored: when parse_value
\* parses a token sequence T from position 0, parsing T followed by any U
\* succeeds with the same value and the same cursor, which is the length of T
\* when T is the root value's tokens, and reads no token of U.  tokens is T
\* followed by U, for every split of it.
C3_TrailingTokensIgnored ==
    pc = "done" =>
        \A k \in 0..Len(tokens) :
            LET r == parse_value(Prefix(k), 0)
            IN  r.ok =>
                  /\ result = Ok(r.val)
                  /\ pos = r.pos
                  /\ maxread <= r.pos
                  /\ r.pos <= k
                  /\ r.pos = k => pos = Len(Prefix(k)) /\ maxread <= Len(Prefix(k))

\* A root value has been parsed and tokens follow it.
C3_Witness ==
    /\ pc = "done" /\ result.t = "Ok"
    /\ 1 < pos /\ pos < Len(tokens)
    /\ parse_value(Prefix(pos), 0).ok

\* C5 as claimed: wherever inside an object the tokens run out, the error is
\* "Unterminated object".
C5_AlwaysUnterminatedObject ==
    [][pc = "object" /\ pc' = "raise" /\ pos' = Len(tokens) =>
         err' = "Unterminated object"]_vars

\* C5: reaching the end of the token sequence before the object's closing
\* RightBrace always fails: with "Unterminated object" where a key, a comma or
\* the closing brace is awaited (after the opening brace, after a complete
\* key/value pair, after a comma), with "Expected colon after key" after a
\* key, and with "Unexpected end of tokens" after a colon.
C5_EndOfTokensInObject ==
    /\ [][pc = "object" /\ pos >= Len(tokens) =>
            pc' = "raise" /\ err' = "Unterminated object" /\ pos' = pos]_vars
    /\ [][pc = "object" /\ pos + 1 = Len(tokens) /\ tokens[pos + 1].t = "String" =>
            pc' = "raise" /\ err' = "Expected colon after key" /\ pos' = pos + 1]_vars
    /\ [][(/\ pc = "object" /\ pos + 2 = Len(tokens)
           /\ tokens[pos + 1].t = "String" /\ tokens[pos + 2].t = "Colon") =>
            pc' = "raise" /\ err' = "Unexpected end of tokens" /\ pos' = pos + 2]_vars
    /\ [][pc = "object" /\ pc' = "raise" /\ pos' = Len(tokens) =>
            err' = CASE pos' = pos -> "Unterminated object"
                     [] pos' = pos + 1 -> "Expected colon after key"
                     [] pos' = pos + 2 -> "Unexpected end of tokens"]_vars

\* The tokens ran out after a colon.
C5_Witness ==
    /\ pc = "raise" /\ stack # <<>> /\ Top(stack).kind = "object"
    /\ pos = Len(tokens)
    /\ err = "Unexpected end of tokens"

\* The keys of a flat object: the String tokens that a Colon follows, before
\* the cursor the parse ended at.
KeyPositions == {i \in 2..(pos - 2) : tokens[i].t = "String" /\ tokens[i + 1].t = "Colon"}

LastPosition(key) ==
    CHOOSE i \in KeyPositions :
        /\ tokens[i].s = key
        /\ \A j \in KeyPositions : tokens[j].s = key => j <= i

FlatObject ==
    /\ tokens # <<>> /\ tokens[1].t = "LeftBrace"
    /\ \A i \in 2..Len(tokens) : tokens[i].t \notin {"LeftBrace", "LeftBracket"}

\* C6: object keys are unique with last write wins: a successfully parsed
\* object has exactly one entry per distinct key string in key position, and
\* the value under each key is the one parsed for the last occurrence of the
\* key; {"a":1,"a":2} yields the single key a mapped to 2.
C6_LastWriteWins ==
    pc = "done" /\ result.t = "Ok" /\ FlatObject =>
        /\ result.val.t = "Object"
        /\ DOMAIN result.val.o = {tokens[i].s : i \in KeyPositions}
        /\ \A key \in DOMAIN result.val.o :
               result.val.o[key] = Leaf(tokens[LastPosition(key) + 2])
        /\ tokens = <<LeftBrace, KeyA, Colon, NumberToken(One), Comma,
                      KeyA, Colon, NumberToken(Two), RightBrace>> =>
               result.val = JsonObjectOf([key \in {<<"a">>} |-> JsonNumber(Two)])

\* An object with a key written twice, with different values, has been parsed.
C6_Witness ==
    /\ pc = "done" /\ result.t = "Ok" /\ FlatObject
    /\ \E i, j \in KeyPositions :
           i < j /\ tokens[i].s = tokens[j].s /\ tokens[i + 2] # tokens[j + 2]

NotComma(tok) == tok.t # "Comma"

IsLeaf(tok) == tok.t \in {"String", "Number", "Bool", "Null"}

NoBraces == \A i \in 1..Len(tokens) : tokens[i].t # "LeftBrace"

\* The elements between the opening bracket and the token that closed the
\* array, when they are all leaves or commas.
Elements == SubSeq(tokens, 2, pos - 1)

\* C9: in array parsing a Comma only advances the cursor by one and appends
\* nothing: the array is the in-order sequence of the values parsed from the
\* non-comma tokens, so commas added, removed, doubled or put at the start or
\* the end of the elements never change the parsed array or cause an error.
C9_ArrayCommasSkipped ==
    /\ [][pc = "array" /\ pos < Len(tokens) /\ tokens[pos + 1].t = "Comma" =>
            /\ pos' = pos + 1 /\ stack' = stack /\ pc' = "array"
            /\ err' = err /\ result' = result]_vars
    /\ [](pc = "done" /\ tokens # <<>> /\ tokens[1].t = "LeftBracket" /\ NoBraces =>
            LET r == parse_value(SelectSeq(tokens, NotComma), 0)
            IN  /\ (result.t = "Ok") = r.ok
                /\ r.ok => result.val = r.val
                /\ ~r.ok => result.err = r.err)
    /\ []((/\ pc = "done" /\ result.t = "Ok"
           /\ tokens # <<>> /\ tokens[1].t = "LeftBracket"
           /\ \A i \in 1..Len(Elements) : IsLeaf(Elements[i]) \/ Elements[i].t = "Comma")
          => LET kept == SelectSeq(Elements, NotComma)
             IN  result.val = JsonArray([i \in 1..Len(kept) |-> Leaf(kept[i])]))

\* An array with a leading, a doubled or a trailing comma has been parsed.
C9_Witness ==
    /\ pc = "done" /\ result.t = "Ok"
    /\ tokens[1].t = "LeftBracket" /\ tokens[2].t = "Comma"
    /\ result.val.t = "Array" /\ Len(result.val.a) >= 1
    /\ tokens[pos - 1].t = "Comma"

(***************************************************************************)
(* Claims about the whole run, checked under Spec and FairSpec.            *)
(***************************************************************************)
\* C4: every error is terminal and propagated unchanged: the first error
\* raised by tokenize or by a nested parse call becomes the result of the
\* top-level parse, no character or token is consumed after it, no enclosing
\* array or object loop resumes, and the result is a complete value or an
\* error, never a partial tree.
C4_ErrorsTerminal ==
    /\ [][pc = "raise" =>
            /\ pc' \in {"raise", "done"}
            /\ err' = err /\ err # NoErr
            /\ pos' = pos /\ rest' = rest /\ tokens' = tokens /\ maxread' = maxread
            /\ Len(stack') <= Len(stack)
            /\ pc' = "done" => result' = Err(err)]_vars
    /\ [][pc # "raise" /\ err' # err => err = NoErr /\ pc' = "raise"]_vars
    /\ [](err # NoErr => pc \in {"raise", "done"})
    /\ [](pc = "done" =>
            \/ result.t = "Err" /\ result.err = err /\ err # NoErr
            \/ result.t = "Ok" /\ err = NoErr /\ stack = <<>>)
    /\ [](pc # "done" => result = NoResult)

\* An error has been raised inside a nested call, two loops enclose it.
C4_Witness ==
    /\ pc = "raise" /\ Len(stack) >= 2
    /\ pos < Len(tokens)

\* What is left to do, as a number that every step lowers: the characters
\* left to scan, then the tokens left to parse and the calls left to return.
Measure ==
    CASE pc = "start" -> 4 * Len(data) + 7
      [] pc = "tokenize" -> 3 * Len(data) + 6 + Len(rest)
      [] pc = "tokenized" -> 3 * Len(tokens) + 5
      [] pc = "value" -> 3 * Len(tokens) + 4
      [] pc \in {"array", "object"} -> 2 * (Len(tokens) - pos) + 2 + Len(stack)
      [] pc = "raise" -> 1 + Len(stack)
      [] pc = "done" -> 0

\* C10: every iteration of the tokenize loop that does not fail consumes at
\* least one character; every iteration of the array and object loops and
\* every parse_value call that does not fail moves the cursor forward and
\* keeps it at most the token count; hence every run ends with a value or an
\* error (each step lowers Measure, and the run does reach its end), and no
\* token at or beyond the token count is read.
C10_ProgressAndTermination ==
    /\ [][pc = "tokenize" /\ rest # <<>> /\ pc' # "raise" => Len(rest') < Len(rest)]_vars
    /\ [][(pc \in {"value", "array", "object"}) /\ pc' # "raise" => pos' > pos]_vars
    /\ [](\A i \in 1..Len(stack) : stack[i].start < pos)
    /\ [](pos <= Len(tokens) /\ maxread <= Len(tokens) /\ pc # "panic")
    /\ [][Measure' < Measure]_vars
    /\ [](Measure >= 0)
    /\ [](pc = "done" => result.t \in {"Ok", "Err"})
    /\ <>(pc = "done")

\* A nested document has been parsed to its last token.
C10_Witness ==
    /\ pc = "done" /\ result.t = "Ok"
    /\ Len(tokens) >= 9 /\ pos = Len(tokens) /\ maxread = Len(tokens)

====
